---- MODULE Spec2Model ----
(***************************************************************************)
(* Model of src/src/thread.ts: the `post` command of the thread CLI.       *)
(* A document is split on "---" into blocks, image references are          *)
(* extracted, the whole document is validated, every distinct image is     *)
(* uploaded (INIT / APPEND / FINALIZE) and the blocks are posted as a      *)
(* reply chain.                                                            *)
(*                                                                         *)
(* Strings are sequences of one-character strings, so that split, trim,    *)
(* the image regular expression and slice are computed character by        *)
(* character as the JavaScript does.                                       *)
(***************************************************************************)
EXTENDS Integers, Sequences, FiniteSets, TLC

(***************************************************************************)
(* Bounds of the model                                                     *)
(***************************************************************************)
\* A document is a concatenation of at most MaxPieces pieces of Pieces.
MaxPieces == 3

(***************************************************************************)
(* Program constants                                                       *)
(***************************************************************************)
\* lint: block.length > 280
MaxTweetLength == 280
\* checkImageSize: image.total_bytes > 5242880
MaxImageBytes == 5242880
\* checkImageNumberPerPost: content.images.length > 4
MaxImagesPerPost == 4
\* checkImageNumberPerPost: content.images.length > 1 (case 'gif')
MaxGifsPerPost == 1
\* appendImageUpload: segment_index: 0
SegmentIndex == 0

(***************************************************************************)
(* Characters and strings                                                  *)
(***************************************************************************)
NL == "\n"

\* The line terminators the regular expression's `.` refuses.
IsLineTerminator(c) == c = NL

\* The white space String.prototype.trim removes (of the model's alphabet).
IsWhiteSpace(c) == c \in {" ", NL}

Min(S) == CHOOSE x \in S : \A y \in S : x <= y

Max(S) == CHOOSE x \in S : \A y \in S : x >= y

\* s.startsWith(sep, i) with 1-based i
StartsAt(s, sep, i) ==
  /\ i >= 1
  /\ i + Len(sep) - 1 <= Len(s)
  /\ \A k \in 1..Len(sep) : s[i + k - 1] = sep[k]

\* s.indexOf(sep, from), 1-based; 0 when there is no occurrence
IndexOf(s, sep, from) ==
  LET hits == {i \in from..(Len(s) - Len(sep) + 1) : StartsAt(s, sep, i)}
  IN  IF hits = {} THEN 0 ELSE Min(hits)

\* String.prototype.split(sep) for a non-empty separator: left to right,
\* non-overlapping, nothing filtered out.
RECURSIVE SplitFrom(_, _, _)
SplitFrom(s, sep, from) ==
  LET i == IndexOf(s, sep, from)
  IN  IF i = 0
      THEN << SubSeq(s, from, Len(s)) >>
      ELSE << SubSeq(s, from, i - 1) >> \o SplitFrom(s, sep, i + Len(sep))

split(s, sep) == SplitFrom(s, sep, 1)

RECURSIVE SkipWsForward(_, _)
SkipWsForward(s, i) ==
  IF i <= Len(s) /\ IsWhiteSpace(s[i]) THEN SkipWsForward(s, i + 1) ELSE i

RECURSIVE SkipWsBackward(_, _)
SkipWsBackward(s, i) ==
  IF i >= 1 /\ IsWhiteSpace(s[i]) THEN SkipWsBackward(s, i - 1) ELSE i

\* String.prototype.trim
trim(s) == SubSeq(s, SkipWsForward(s, 1), SkipWsBackward(s, Len(s)))

\* String.prototype.slice(0, n)
slice0(s, n) == SubSeq(s, 1, IF Len(s) < n THEN Len(s) ELSE n)

Digits == << "0", "1", "2", "3", "4", "5", "6", "7", "8", "9" >>

\* `${n}` for a natural number n
RECURSIVE NatToString(_)
NatToString(n) ==
  IF n < 10 THEN << Digits[n + 1] >>
  ELSE NatToString(n \div 10) \o << Digits[(n % 10) + 1] >>

RECURSIVE Concat(_)
Concat(ss) == IF ss = << >> THEN << >> ELSE Head(ss) \o Concat(Tail(ss))

(***************************************************************************)
(* The image regular expression  /!\[.*?\]\(.+?\)/                         *)
(***************************************************************************)
\* The positions k of the ")" that can end `.+?\)` when "](" is at j: at
\* least one character, none of them a line terminator, lies between.
ClosersFor(t, j) ==
  {k \in (j + 3)..Len(t) :
     /\ t[k] = ")"
     /\ \A m \in (j + 2)..(k - 1) : ~IsLineTerminator(t[m])}

\* The positions j of the "](" that can follow `!\[.*?` started at s.
BracketsFor(t, s) ==
  {j \in (s + 2)..(Len(t) - 1) :
     /\ t[j] = "]"
     /\ t[j + 1] = "("
     /\ \A m \in (s + 2)..(j - 1) : ~IsLineTerminator(t[m])
     /\ ClosersFor(t, j) # {}}

MatchesAt(t, s) ==
  /\ s + 1 <= Len(t)
  /\ t[s] = "!"
  /\ t[s + 1] = "["
  /\ BracketsFor(t, s) # {}

\* The match anchored at s: both quantifiers are lazy, so the first "](" and
\* then the first ")" that let the rest match are taken. from..to is the
\* match, pfrom..pto its capture group (the path).
MatchAt(t, s) ==
  LET j == Min(BracketsFor(t, s))
      k == Min(ClosersFor(t, j))
  IN  [from |-> s, to |-> k, pfrom |-> j + 2, pto |-> k - 1]

\* All matches of the /g expression from position pos on: leftmost first,
\* the search resuming after the end of each match.
RECURSIVE MatchesFrom(_, _)
MatchesFrom(t, pos) ==
  LET starts == {s \in pos..Len(t) : MatchesAt(t, s)}
  IN  IF starts = {} THEN << >>
      ELSE LET m == MatchAt(t, Min(starts))
           IN  << m >> \o MatchesFrom(t, m.to + 1)

\* block.match(imagesRegex) || []
matchImages(block) ==
  LET ms == MatchesFrom(block, 1)
  IN  [i \in 1..Len(ms) |-> SubSeq(block, ms[i].from, ms[i].to)]

\* img.match(imagePathRegex)[1]: the capture group of the first match
capturePath(img) ==
  LET m == MatchAt(img, Min({s \in 1..Len(img) : MatchesAt(img, s)}))
  IN  SubSeq(img, m.pfrom, m.pto)

\* block.replace(imagesRegex, '')
RECURSIVE RemoveFrom(_, _, _)
RemoveFrom(t, ms, pos) ==
  IF ms = << >> THEN SubSeq(t, pos, Len(t))
  ELSE SubSeq(t, pos, Head(ms).from - 1) \o RemoveFrom(t, Tail(ms), Head(ms).to + 1)

removeImages(block) == RemoveFrom(block, MatchesFrom(block, 1), 1)

(***************************************************************************)
(* Paths                                                                   *)
(***************************************************************************)
\* resolve(dirname(filename)): the directory of the document
DocDir == << "/", "w" >>

RECURSIVE NormalizeSegments(_, _)
NormalizeSegments(segs, acc) ==
  IF segs = << >> THEN acc
  ELSE LET h == Head(segs)
       IN  IF h = << >> \/ h = << "." >>
           THEN NormalizeSegments(Tail(segs), acc)
           ELSE IF h = << ".", "." >>
           THEN NormalizeSegments(Tail(segs),
                  IF acc = << >> THEN acc ELSE SubSeq(acc, 1, Len(acc) - 1))
           ELSE NormalizeSegments(Tail(segs), Append(acc, h))

\* path.join(dir, path) for an absolute dir: the two joined with "/" and
\* normalised ("." and empty segments dropped, ".." resolved).
join(dir, path) ==
  LET segs == NormalizeSegments(split(dir \o << "/" >> \o path, << "/" >>), << >>)
  IN  Concat([i \in 1..Len(segs) |-> << "/" >> \o segs[i]])

\* path.extname(path).slice(1)
extension(path) ==
  LET segs == split(path, << "/" >>)
      base == segs[Len(segs)]
      dots == {i \in 1..Len(base) : base[i] = "."}
  IN  IF dots = {} \/ Max(dots) = 1 THEN << >>
      ELSE SubSeq(base, Max(dots) + 1, Len(base))

Gif == << "g", "i", "f" >>

(***************************************************************************)
(* Documents, files and the other inputs                                   *)
(***************************************************************************)
Delimiter == << "-", "-", "-" >>

\* a block separator as documents write it: the delimiter on a line of its own
PieceBreak == << NL, "-", "-", "-", NL >>

PieceText == << "x" >>

\* a run of text that brings a one-block document ("0/0", two line feeds and
\* the run) to exactly the length limit
PieceLong == [i \in 1..(MaxTweetLength - 5) |-> "x"]

PieceImage == << "!", "[", "]", "(", "p", ".", "p", "n", "g", ")" >>

\* two references, the first to the file of PieceImage under another spelling
PieceTwoImages ==
  << "!", "[", "a", "]", "(", ".", "/", "p", ".", "p", "n", "g", ")",
     "!", "[", "b", "]", "(", "q", ".", "p", "n", "g", ")" >>

PieceGif == << "!", "[", "]", "(", "g", ".", "g", "i", "f", ")" >>

Pieces ==
  << PieceBreak, PieceText, PieceLong, PieceImage, PieceTwoImages, PieceGif >>

\* The documents a run may be given: every concatenation of at most
\* MaxPieces pieces.
PieceSeqs == UNION {[1..n -> 1..Len(Pieces)] : n \in 0..MaxPieces}

Docs == {Concat([i \in 1..Len(f) |-> Pieces[f[i]]]) : f \in PieceSeqs}

PathP == << "/", "w", "/", "p", ".", "p", "n", "g" >>
PathQ == << "/", "w", "/", "q", ".", "p", "n", "g" >>
PathG == << "/", "w", "/", "g", ".", "g", "i", "f" >>

\* the image files a document of Docs can refer to
ImageFiles == {PathP, PathQ, PathG}

NoFile == [exists |-> FALSE, bytes |-> 0]

OkFile == [exists |-> TRUE, bytes |-> MaxImageBytes]

\* an image file is absent, of exactly the largest accepted size, or one
\* byte larger
FileStates ==
  {NoFile,
   OkFile,
   [exists |-> TRUE, bytes |-> MaxImageBytes + 1]}

\* The states of the image directory a run may find: every file is absent, of
\* the largest accepted size or one byte larger, and at most one of them is
\* not of the largest accepted size.
FileSystems ==
  {fs \in [ImageFiles -> FileStates] :
     \A p, q \in ImageFiles : fs[p] # OkFile /\ fs[q] # OkFile => p = q}

\* the answers typed at the confirmation prompt
Inputs == {"y", "Y", "n", ""}

toLowerCase(input) == IF input = "Y" THEN "y" ELSE input

\* The ids the service hands out are opaque and never repeat: the INIT
\* request of the i-th pipeline is given "m<i>", the FINALIZE request for
\* media id m answers with "f" followed by m, and the k-th post created is
\* given "t<k>".
serverInitId(i) == << "m" >> \o NatToString(i)
serverFinalId(mediaId) == << "f" >> \o mediaId
serverPostId(k) == << "t" >> \o NatToString(k)

\* undefined, where a string is expected
Undefined == << >>

\* what a rejected request, or the error field of a response, carries
ServerError == "E"

Credential == [consumer_key |-> "ck", consumer_secret |-> "cs",
               access_token_key |-> "tk", access_token_secret |-> "ts"]

\* Config: the profiles of ~/.thread.json in the order of its keys
EmptyConfig == << >>
ActiveConfig == << [name |-> "main", active |-> TRUE, credential |-> Credential] >>

(***************************************************************************)
(* The functions of thread.ts the post command is made of                  *)
(***************************************************************************)
\* getProfile: Object.values(config).find(p => p.active); 0 when none
activeProfileIndex(cfg) ==
  LET act == {i \in 1..Len(cfg) : cfg[i].active}
  IN  IF act = {} THEN 0 ELSE Min(act)

\* makeBlocks: `${i}/${total}`
counter(i, total) == NatToString(i) \o << "/" >> \o NatToString(total)

\* makeBlocks as it would be if empty blocks were filtered out
makeBlocksNonEmpty(file) ==
  LET arr == SelectSeq(split(file, Delimiter), LAMBDA b : trim(b) # << >>)
  IN  [i \in 1..Len(arr) |->
         counter(i - 1, Len(arr) - 1) \o << NL, NL >> \o trim(arr[i])]

\* makeBlocks: file.split('---').map(...)
makeBlocks(file) ==
  LET arr == split(file, Delimiter)
  IN  [i \in 1..Len(arr) |->
         counter(i - 1, Len(arr) - 1) \o << NL, NL >> \o trim(arr[i])]

\* extractImage
extractImage(blocks) ==
  [b \in 1..Len(blocks) |->
     LET images == matchImages(blocks[b])
     IN  [text |-> removeImages(blocks[b]),
          images |-> [k \in 1..Len(images) |-> join(DocDir, capturePath(images[k]))]]]

\* lint as it would be with >= for >
tooLongInclusive(block) == Len(block) >= MaxTweetLength

\* lint: the test that throws
tooLong(block) == Len(block) > MaxTweetLength

\* lint: the index of the first block that throws; 0 when none does
lint(blocks) ==
  LET bad == {i \in 1..Len(blocks) : tooLong(blocks[i])}
  IN  IF bad = {} THEN 0 ELSE Min(bad)

\* contents.reduce((acc, b) => [...acc, ...b.images], [])
allImages(contents) == Concat([i \in 1..Len(contents) |-> contents[i].images])

\* .filter((path, i, arr) => arr.indexOf(path) === i)
RECURSIVE FilterFirst(_, _)
FilterFirst(arr, i) ==
  IF i > Len(arr) THEN << >>
  ELSE (IF IndexOf(arr, << arr[i] >>, 1) = i THEN << arr[i] >> ELSE << >>)
       \o FilterFirst(arr, i + 1)

\* imagePaths as it would be without the filter
uniquePathsUnfiltered(arr) == arr

uniquePaths(arr) == FilterFirst(arr, 1)

\* existsSync on an image path
existsSync(fs, path) == path \in DOMAIN fs /\ fs[path].exists

\* imagePaths.forEach(path => checkFileExists(path)): the index of the
\* first path that throws; 0 when none does
firstMissing(fs, paths) ==
  LET bad == {i \in 1..Len(paths) : ~existsSync(fs, paths[i])}
  IN  IF bad = {} THEN 0 ELSE Min(bad)

\* the switch as it would be on extname(path), dot included: no extension
\* equals 'gif' and every image takes the default case
imageCaseDotted(content, path) ==
  IF Len(content.images) > MaxImagesPerPost THEN "TooManyImages" ELSE ""

\* checkImageNumberPerPost: the switch on one image of a content. The error
\* it throws, "" when it breaks out without one.
imageCase(content, path) ==
  IF extension(path) = Gif
  THEN IF Len(content.images) > MaxGifsPerPost THEN "TooManyGifs" ELSE ""
  ELSE IF Len(content.images) > MaxImagesPerPost THEN "TooManyImages" ELSE ""

\* checkImageNumberPerPost: content.images.forEach: the error of the first
\* image that throws, "" when none does
contentCheck(content) ==
  LET bad == {k \in 1..Len(content.images) : imageCase(content, content.images[k]) # ""}
  IN  IF bad = {} THEN "" ELSE imageCase(content, content.images[Min(bad)])

\* the post command as it would be without its call of checkImageNumberPerPost
checkImageNumberPerPostSkipped(contents) == 0

\* checkImageNumberPerPost: contents.forEach: the index of the first content
\* that throws; 0 when none does
checkImageNumberPerPost(contents) ==
  LET bad == {i \in 1..Len(contents) : contentCheck(contents[i]) # ""}
  IN  IF bad = {} THEN 0 ELSE Min(bad)

\* getImagesData (the payload itself is not modelled)
getImagesData(fs, path) ==
  [path |-> path,
   total_bytes |-> fs[path].bytes,
   media_type |-> << "i", "m", "a", "g", "e", "/" >> \o extension(path)]

\* checkImageSize as it would be with >= for >
tooLargeInclusive(image) == image.total_bytes >= MaxImageBytes

\* checkImageSize: the test that throws
tooLarge(image) == image.total_bytes > MaxImageBytes

\* imagesData.forEach(checkImageSize): the index of the first image that
\* throws; 0 when none does
checkImageSize(imagesData) ==
  LET bad == {i \in 1..Len(imagesData) : tooLarge(imagesData[i])}
  IN  IF bad = {} THEN 0 ELSE Min(bad)

(***************************************************************************)
(* Uploading and posting: the pure parts                                   *)
(***************************************************************************)
\* initImageUpload: the parameters of the INIT request
initParams(data) ==
  [command |-> "INIT", total_bytes |-> data.total_bytes, media_type |-> data.media_type]

\* appendImageUpload: the parameters of the APPEND request
appendParams(mediaId) ==
  [command |-> "APPEND", media_id |-> mediaId, segment_index |-> SegmentIndex]

\* finalizeImageUpload as it would be if it were handed a field the INIT
\* response does not have (media_id_str for media_id_string)
finalizeParamsNoId(mediaId) == [command |-> "FINALIZE", media_id |-> Undefined]

\* finalizeImageUpload: the parameters of the FINALIZE request
finalizeParams(mediaId) == [command |-> "FINALIZE", media_id |-> mediaId]

\* uploadImages as it would be if it read a field the FINALIZE response does
\* not have (media_id_str for media_id_string)
uploadedNoId(imgData, finalizeResponse) == [path |-> imgData.path, mediaId |-> Undefined]

\* uploadImages: what one pipeline resolves to
uploaded(imgData, finalizeResponse) ==
  [path |-> imgData.path, mediaId |-> finalizeResponse.media_id_string]

\* pathAndImageId.find(img => path === img.path)?.mediaId
findMediaId(pathAndImageId, path) ==
  LET hit == {i \in 1..Len(pathAndImageId) : pathAndImageId[i].path = path}
  IN  IF hit = {} THEN Undefined ELSE pathAndImageId[Min(hit)].mediaId

\* contents.map(content => ({text, mediaIds}))
makePostContents(contents, pathAndImageId) ==
  [i \in 1..Len(contents) |->
     [text |-> contents[i].text,
      mediaIds |-> [k \in 1..Len(contents[i].images) |->
                      findMediaId(pathAndImageId, contents[i].images[k])]]]

\* Array.prototype.join(','): undefined entries give the empty string
RECURSIVE joinIds(_)
joinIds(ids) ==
  IF ids = << >> THEN << >>
  ELSE IF Len(ids) = 1 THEN ids[1]
  ELSE ids[1] \o << "," >> \o joinIds(Tail(ids))

\* post as it would be if a frame issued its own request before it called
\* post({index - 1})
RECURSIVE postFramesAscending(_)
postFramesAscending(index) ==
  IF index = 0 THEN << 0 >> ELSE postFramesAscending(index - 1) \o << index >>

\* post: the frames post({index}) leaves suspended, outermost first. Each
\* frame with index > 0 calls post({index - 1}) before its own request.
RECURSIVE postFrames(_)
postFrames(index) ==
  IF index = 0 THEN << 0 >> ELSE << index >> \o postFrames(index - 1)

\* post: (await post({index: index - 1})).id_str
replyTarget(response) == response.id_str

\* post as it would be with one request shape for every index
postParamsAlwaysReply(postContents, index, prev) ==
  [index |-> index,
   status |-> postContents[index + 1].text,
   media_ids |-> joinIds(postContents[index + 1].mediaIds),
   in_reply_to_status_id |-> prev.id_str]

\* post: the parameters of the statuses/update request of frame `index`;
\* `prev` is the response the frame below returned (unused at index 0).
\* `index` names the frame and is no parameter of the request.
postParams(postContents, index, prev) ==
  IF index = 0
  THEN [index |-> index,
        status |-> postContents[index + 1].text,
        media_ids |-> joinIds(postContents[index + 1].mediaIds)]
  ELSE [index |-> index,
        status |-> postContents[index + 1].text,
        media_ids |-> joinIds(postContents[index + 1].mediaIds),
        in_reply_to_status_id |-> replyTarget(prev)]

\* the check of the answer as it would be if only a literal 'n' declined
declinedOnlyN(input) == toLowerCase(input) = "n"

\* confirmation.input.toLowerCase() !== 'y'
declined(input) == toLowerCase(input) # "y"

(***************************************************************************)
(* State                                                                   *)
(***************************************************************************)
VARIABLES
  config,        \* ~/.thread.json
  imgfs,         \* the image files on disk: path -> [exists, bytes]
  pc,            \* where the post command is
  file,          \* the document read by makeBlocks
  blocks,        \* makeBlocks(filename)
  contents,      \* extractImage(...)
  imagePaths,    \* the distinct image paths
  imagesData,    \* imagePaths.map(getImagesData)
  error,         \* what the command threw
  upl,           \* the upload pipelines, one per element of imagesData
  uploadAll,     \* the state of the Promise.all of uploadImages
  mediaCalls,    \* per pipeline, the media/upload requests it issued
  postContents,  \* contents with their media ids
  frames,        \* the suspended frames of post, outermost first
  postCalls,     \* the statuses/update requests issued, in order
  postResponses  \* the responses received to them, in order

vars == << config, imgfs, pc, file, blocks, contents, imagePaths, imagesData,
           error, upl, uploadAll, mediaCalls, postContents, frames, postCalls,
           postResponses >>

NoError == [kind |-> "none"]

Init ==
  /\ config \in {EmptyConfig, ActiveConfig}
  /\ imgfs \in FileSystems
  /\ pc = "idle"
  /\ file = << >>
  /\ blocks = << >>
  /\ contents = << >>
  /\ imagePaths = << >>
  /\ imagesData = << >>
  /\ error = NoError
  /\ upl = << >>
  /\ uploadAll = "none"
  /\ mediaCalls = << >>
  /\ postContents = << >>
  /\ frames = << >>
  /\ postCalls = << >>
  /\ postResponses = << >>

\* an async function throws: its promise rejects and nothing handles it
Throw(e) ==
  /\ pc' = "thrown"
  /\ error' = e

\* the command as it would be if it sent the posts all at once
StartPostParallel(pathAndImageId) ==
  LET pcs == makePostContents(contents, pathAndImageId)
  IN  /\ postContents' = pcs
      /\ frames' = postFrames(Len(pcs) - 1)
      /\ postCalls' = [k \in 1..Len(pcs) |-> postParams(pcs, k - 1, [id_str |-> Undefined])]
      /\ pc' = "posting"

\* await post({tw, index: postContents.length - 1, contents: postContents}):
\* the frames are entered down to index 0, whose request is issued.
StartPost(pathAndImageId) ==
  LET pcs == makePostContents(contents, pathAndImageId)
      fs == postFrames(Len(pcs) - 1)
  IN  /\ postContents' = pcs
      /\ frames' = fs
      /\ postCalls' = << postParams(pcs, fs[Len(fs)], [id_str |-> Undefined]) >>
      /\ pc' = "posting"

(***************************************************************************)
(* post <filename>, up to the confirmation prompt (lines 88-106)           *)
(***************************************************************************)
\* (blocks, contents and imagePaths are bound with \E over a one-element set,
\* which has each computed once.)
Validate(doc) ==
  \E bs \in {makeBlocks(doc)} : \E cs \in {extractImage(bs)} :
  \E paths \in {uniquePaths(allImages(cs))} :
  LET long == lint([i \in 1..Len(cs) |-> cs[i].text])
      missing == firstMissing(imgfs, paths)
      mix == checkImageNumberPerPost(cs)
      data == [i \in 1..Len(paths) |-> getImagesData(imgfs, paths[i])]
      large == checkImageSize(data)
  IN  /\ file' = doc
      /\ blocks' = bs
      /\ contents' = cs
      /\ IF long # 0
         THEN /\ Throw([kind |-> "ContentTooLong",
                        text |-> slice0(cs[long].text, MaxTweetLength)])
              /\ UNCHANGED << imagePaths, imagesData >>
         ELSE IF missing # 0
         THEN /\ Throw([kind |-> "FileNotFound", path |-> paths[missing]])
              /\ imagePaths' = paths
              /\ UNCHANGED imagesData
         ELSE IF mix # 0
         THEN /\ Throw([kind |-> contentCheck(cs[mix]), text |-> cs[mix].text])
              /\ imagePaths' = paths
              /\ UNCHANGED imagesData
         ELSE IF large # 0
         THEN /\ Throw([kind |-> "ImageTooLarge", path |-> data[large].path])
              /\ imagePaths' = paths
              /\ imagesData' = data
         ELSE /\ pc' = "confirm"
              /\ imagePaths' = paths
              /\ imagesData' = data
              /\ UNCHANGED error

PostCommand ==
  /\ pc = "idle"
  /\ UNCHANGED << config, imgfs, upl, uploadAll, mediaCalls, postContents,
                  frames, postCalls, postResponses >>
  /\ IF activeProfileIndex(config) = 0
     THEN /\ pc' = "returned"
          /\ UNCHANGED << file, blocks, contents, imagePaths, imagesData, error >>
     ELSE \/ /\ Throw([kind |-> "FileNotFound", path |-> << >>])
             /\ UNCHANGED << file, blocks, contents, imagePaths, imagesData >>
          \/ \E doc \in Docs : Validate(doc)

(***************************************************************************)
(* The answer to the prompt, and what follows it without waiting           *)
(* (lines 106-123)                                                         *)
(***************************************************************************)
ConfirmWith(input) ==
  /\ pc = "confirm"
  /\ UNCHANGED << config, imgfs, file, blocks, contents, imagePaths, imagesData,
                  error, postResponses >>
  /\ IF declined(input)
     THEN \* rl.close() emits 'close', whose listener calls process.exit(0)
          /\ pc' = "exited"
          /\ UNCHANGED << upl, uploadAll, mediaCalls, postContents, frames, postCalls >>
     ELSE \* uploadImages: every pipeline runs to its first await
          /\ upl' = [i \in 1..Len(imagesData) |-> [phase |-> "init", mediaId |-> Undefined, result |-> Undefined]]
          /\ mediaCalls' = [i \in 1..Len(imagesData) |-> << initParams(imagesData[i]) >>]
          /\ IF imagesData = << >>
             THEN /\ uploadAll' = "fulfilled"
                  /\ StartPost(<< >>)
             ELSE /\ uploadAll' = "pending"
                  /\ pc' = "uploading"
                  /\ UNCHANGED << postContents, frames, postCalls >>

Confirm == \E input \in Inputs : ConfirmWith(input)

(***************************************************************************)
(* uploadImages: the pipelines (lines 334-350)                             *)
(***************************************************************************)
InFlight(i) == upl[i].phase \in {"init", "append", "finalize"}

\* uploadImages as it would be with Promise.race for Promise.all
AnyDone(u) == \E i \in 1..Len(u) : u[i].phase = "done"

AllDone(u) == \A i \in 1..Len(u) : u[i].phase = "done"

\* uploadImages as it would be if the command saw the latest rejection
PipelineThrowsLatest(i, e) ==
  /\ upl' = [upl EXCEPT ![i].phase = "failed"]
  /\ uploadAll' = "rejected"
  /\ Throw(e)
  /\ UNCHANGED << mediaCalls, postContents, frames, postCalls >>

\* One pipeline throws. Promise.all rejects with the first rejection, which
\* the command rethrows; the other pipelines are left running.
PipelineThrows(i, e) ==
  /\ upl' = [upl EXCEPT ![i].phase = "failed"]
  /\ IF uploadAll = "pending"
     THEN /\ uploadAll' = "rejected"
          /\ Throw(e)
     ELSE UNCHANGED << uploadAll, pc, error >>
  /\ UNCHANGED << mediaCalls, postContents, frames, postCalls >>

\* INIT answers: the pipeline goes on to APPEND with the id it was given
InitReturns(i) ==
  /\ i \in 1..Len(upl)
  /\ upl[i].phase = "init"
  /\ LET initResponse == [media_id_string |-> serverInitId(i)]
     IN  /\ upl' = [upl EXCEPT ![i] = [phase |-> "append",
                                       mediaId |-> initResponse.media_id_string,
                                       result |-> Undefined]]
         /\ mediaCalls' = [mediaCalls EXCEPT
              ![i] = Append(@, appendParams(initResponse.media_id_string))]
  /\ UNCHANGED << config, imgfs, pc, file, blocks, contents, imagePaths, imagesData,
                  error, uploadAll, postContents, frames, postCalls, postResponses >>

\* APPEND answers: the pipeline goes on to FINALIZE
AppendReturns(i) ==
  /\ i \in 1..Len(upl)
  /\ upl[i].phase = "append"
  /\ upl' = [upl EXCEPT ![i].phase = "finalize"]
  /\ mediaCalls' = [mediaCalls EXCEPT ![i] = Append(@, finalizeParams(upl[i].mediaId))]
  /\ UNCHANGED << config, imgfs, pc, file, blocks, contents, imagePaths, imagesData,
                  error, uploadAll, postContents, frames, postCalls, postResponses >>

\* FINALIZE answers, with or without an error field. Without one the
\* pipeline is done; when it is the last one, Promise.all is fulfilled and
\* the command goes on to post.
FinalizeReturns(i) ==
  /\ i \in 1..Len(upl)
  /\ upl[i].phase = "finalize"
  /\ UNCHANGED << config, imgfs, file, blocks, contents, imagePaths, imagesData,
                  postResponses >>
  /\ \E failed \in BOOLEAN :
       IF failed
       THEN PipelineThrows(i, [kind |-> "UploadFailed", at |-> "finalize",
                               message |-> << "Failed to upload image: ", ServerError >>])
       ELSE LET finalizeResponse == [media_id_string |-> serverFinalId(upl[i].mediaId)]
                u == [upl EXCEPT ![i].phase = "done",
                                 ![i].result = uploaded(imagesData[i], finalizeResponse).mediaId]
            IN  /\ upl' = u
                /\ UNCHANGED << mediaCalls, error >>
                /\ IF AllDone(u) /\ uploadAll = "pending"
                   THEN /\ uploadAll' = "fulfilled"
                        /\ StartPost([k \in 1..Len(u) |->
                                        [path |-> imagesData[k].path, mediaId |-> u[k].result]])
                   ELSE UNCHANGED << uploadAll, pc, postContents, frames, postCalls >>

\* the pipeline as it would be if a rejected request were sent once more
MediaRequestRetries(i) ==
  /\ i \in 1..Len(upl)
  /\ InFlight(i)
  /\ mediaCalls' = [mediaCalls EXCEPT ![i] = Append(@, @[Len(@)])]
  /\ upl' = [upl EXCEPT ![i].phase = "failed"]
  /\ IF uploadAll = "pending"
     THEN /\ uploadAll' = "rejected"
          /\ Throw([kind |-> "UploadFailed", at |-> upl[i].phase,
                    message |-> << ServerError >>])
     ELSE UNCHANGED << uploadAll, pc, error >>
  /\ UNCHANGED << postContents, frames, postCalls >>
  /\ UNCHANGED << config, imgfs, file, blocks, contents, imagePaths, imagesData,
                  postResponses >>

\* The request a pipeline waits for is rejected by the client
MediaRequestRejects(i) ==
  /\ i \in 1..Len(upl)
  /\ InFlight(i)
  /\ PipelineThrows(i, [kind |-> "UploadFailed", at |-> upl[i].phase,
                        message |-> << ServerError >>])
  /\ UNCHANGED << config, imgfs, file, blocks, contents, imagePaths, imagesData,
                  postResponses >>

(***************************************************************************)
(* post: the reply chain (lines 358-382)                                   *)
(***************************************************************************)
\* The request of the innermost frame answers. The frame returns the
\* response; the frame above it, if any, issues its own request as a reply
\* to it. When the outermost frame returns, the command prints 'Post
\* Completed' and closes the prompt, which ends the process.
CreatePostReturns ==
  /\ pc = "posting"
  /\ frames # << >>
  /\ LET response == [id_str |-> serverPostId(Len(postResponses) + 1)]
         rest == SubSeq(frames, 1, Len(frames) - 1)
     IN  /\ postResponses' = Append(postResponses, response)
         /\ frames' = rest
         /\ IF rest = << >>
            THEN /\ pc' = "exited"
                 /\ UNCHANGED postCalls
            ELSE /\ postCalls' = Append(postCalls,
                                        postParams(postContents, rest[Len(rest)], response))
                 /\ UNCHANGED pc
  /\ UNCHANGED << config, imgfs, file, blocks, contents, imagePaths, imagesData,
                  error, upl, uploadAll, mediaCalls, postContents >>

\* post as it would be if a rejected request were sent once more before the
\* failure is given up on
CreatePostRejectsResends ==
  /\ pc = "posting"
  /\ frames # << >>
  /\ Throw([kind |-> "PostFailed", index |-> frames[Len(frames)],
            message |-> << ServerError >>])
  /\ frames' = << >>
  /\ postCalls' = Append(postCalls, postCalls[Len(postCalls)])
  /\ UNCHANGED << config, imgfs, file, blocks, contents, imagePaths, imagesData,
                  upl, uploadAll, mediaCalls, postContents, postResponses >>

\* post as it would be inside a try/catch that logs the rejection and lets
\* the command run on to rl.close()
CreatePostRejectsSwallowed ==
  /\ pc = "posting"
  /\ frames # << >>
  /\ pc' = "exited"
  /\ frames' = << >>
  /\ UNCHANGED << config, imgfs, file, blocks, contents, imagePaths, imagesData, error,
                  upl, uploadAll, mediaCalls, postContents, postCalls, postResponses >>

\* The request of the innermost frame is rejected: every frame rethrows
CreatePostRejects ==
  /\ pc = "posting"
  /\ frames # << >>
  /\ Throw([kind |-> "PostFailed", index |-> frames[Len(frames)],
            message |-> << ServerError >>])
  /\ frames' = << >>
  /\ UNCHANGED << config, imgfs, file, blocks, contents, imagePaths, imagesData,
                  upl, uploadAll, mediaCalls, postContents, postCalls, postResponses >>

Next ==
  \/ PostCommand
  \/ Confirm
  \/ \E i \in 1..Len(upl) : InitReturns(i)
  \/ \E i \in 1..Len(upl) : AppendReturns(i)
  \/ \E i \in 1..Len(upl) : FinalizeReturns(i)
  \/ \E i \in 1..Len(upl) : MediaRequestRejects(i)
  \/ CreatePostReturns
  \/ CreatePostRejects

Spec == Init /\ [][Next]_vars

\* the most pipelines a run can have: one for each image file
MaxPipelines == Cardinality(ImageFiles)

\* the request pipeline i waits for settles, one way or the other
MediaSettles(i) ==
  InitReturns(i) \/ AppendReturns(i) \/ FinalizeReturns(i) \/ MediaRequestRejects(i)

\* the statuses/update request in flight settles, one way or the other
PostSettles == CreatePostReturns \/ CreatePostRejects

\* every request sent to the service is settled in the end
FairSpec ==
  /\ Spec
  /\ \A i \in 1..MaxPipelines : WF_vars(MediaSettles(i))
  /\ WF_vars(PostSettles)

(***************************************************************************)
(* Vocabulary of the properties                                            *)
(***************************************************************************)
\* the document has been read and parsed
DocumentRead ==
  /\ pc \notin {"idle", "returned"}
  /\ ~(error.kind = "FileNotFound" /\ error.path = << >>)

\* no request has been sent to the service
NoClientCalls == mediaCalls = << >> /\ postCalls = << >>

\* the distinct image paths the document refers to
RefPaths ==
  UNION {{contents[i].images[k] : k \in 1..Len(contents[i].images)} : i \in 1..Len(contents)}

EndsWith(s, suffix) == StartsAt(s, suffix, Len(s) - Len(suffix) + 1)

IsGifPath(path) == EndsWith(path, << ".", "g", "i", "f" >>)

HasGif(content) == \E k \in 1..Len(content.images) : IsGifPath(content.images[k])

\* the media-mix rule as the specification words it
MixAccepted(content) ==
  IF HasGif(content) THEN Len(content.images) = 1 ELSE Len(content.images) <= 4

LengthViolation == \E i \in 1..Len(contents) : Len(contents[i].text) > 280

MixViolation == \E i \in 1..Len(contents) : ~MixAccepted(contents[i])

MissingViolation == \E p \in RefPaths : ~imgfs[p].exists

SizeViolation == \E p \in RefPaths : imgfs[p].exists /\ imgfs[p].bytes > 5242880

\* The starts of the delimiter occurrences a left-to-right, non-overlapping
\* scan finds: an occurrence starts where "---" stands and the dashes just
\* before it are used up three by three.
RECURSIVE DashesUpTo(_, _)
DashesUpTo(s, i) == IF i >= 1 /\ s[i] = "-" THEN 1 + DashesUpTo(s, i - 1) ELSE 0

Occurrences(s) ==
  {i \in 1..(Len(s) - 2) :
     /\ s[i] = "-" /\ s[i + 1] = "-" /\ s[i + 2] = "-"
     /\ DashesUpTo(s, i - 1) % 3 = 0}

\* the k-th smallest element of a set of numbers
Nth(S, k) == CHOOSE x \in S : Cardinality({y \in S : y < x}) = k - 1

\* the text of the document between the (i-1)-th and the i-th occurrence
RawBlock(s, i) ==
  LET occ == Occurrences(s)
      from == IF i = 1 THEN 1 ELSE Nth(occ, i - 1) + 3
      to == IF i = Cardinality(occ) + 1 THEN Len(s) ELSE Nth(occ, i) - 1
  IN  SubSeq(s, from, to)

HasReplyTarget(call) == "in_reply_to_status_id" \in DOMAIN call

CountCommand(calls, c) == Cardinality({k \in 1..Len(calls) : calls[k].command = c})

(***************************************************************************)
(* Properties                                                              *)
(***************************************************************************)
\* C1: when a Content is too long, a Content breaks the media-mix rule, a
\* referenced image file does not exist or an image is over the size cap,
\* the post command has thrown a validation error and no request
\* (media/upload or statuses/update) has been or is ever sent.
C1_ValidationBeforeNetwork ==
  (DocumentRead /\ (LengthViolation \/ MixViolation \/ MissingViolation \/ SizeViolation))
    => /\ pc = "thrown"
       /\ error.kind \in {"ContentTooLong", "FileNotFound", "TooManyGifs",
                          "TooManyImages", "ImageTooLarge"}
       /\ NoClientCalls

\* a run that an oversize image aborted, the document being fine otherwise
C1_Witness ==
  /\ pc = "thrown"
  /\ SizeViolation
  /\ ~LengthViolation /\ ~MixViolation /\ ~MissingViolation
  /\ NoClientCalls

\* C2: the statuses/update requests are issued in ordinal order 0, 1, ...,
\* the k-th carrying the text of the k-th Content; the first carries no
\* reply target and every later one carries the id returned to the request
\* before it; when the command has completed there are exactly N of them.
C2_ReplyChainOrder ==
  /\ \A k \in 1..Len(postCalls) :
       /\ postCalls[k].index = k - 1
       /\ postCalls[k].status = contents[k].text
       /\ IF k = 1
          THEN ~HasReplyTarget(postCalls[k])
          ELSE /\ HasReplyTarget(postCalls[k])
               /\ k - 1 <= Len(postResponses)
               /\ postCalls[k].in_reply_to_status_id = postResponses[k - 1].id_str
  /\ (pc = "exited" /\ uploadAll = "fulfilled")
       => Len(postCalls) = Len(contents) /\ Len(postResponses) = Len(contents)

\* a completed thread of at least three posts
C2_Witness ==
  /\ pc = "exited"
  /\ Len(postCalls) >= 3
  /\ Len(postResponses) = Len(postCalls)

\* C3: a statuses/update request is issued only when every pipeline launched
\* (one per image read) is done; when a pipeline has failed, none is issued.
C3_UploadsBeforePosts ==
  /\ postCalls # << >>
       => /\ uploadAll = "fulfilled"
          /\ Len(upl) = Len(imagesData)
          /\ \A i \in 1..Len(upl) : upl[i].phase = "done"
  /\ (\E i \in 1..Len(upl) : upl[i].phase = "failed") => postCalls = << >>

\* one pipeline failed, every other one has completed since, nothing posted
C3_Witness ==
  /\ Len(upl) >= 2
  /\ Cardinality({i \in 1..Len(upl) : upl[i].phase = "failed"}) = 1
  /\ \A i \in 1..Len(upl) : upl[i].phase \in {"failed", "done"}
  /\ postCalls = << >>

\* C4: when the statuses/update request of index i is rejected the command
\* has thrown, the requests issued are those of indices 0..i and no more
\* (none for an index after i, none sent twice), and the i responses
\* received before stand.
C4_PostFailureAborts ==
  error.kind = "PostFailed"
    => /\ pc = "thrown"
       /\ frames = << >>
       /\ Len(postCalls) = error.index + 1
       /\ \A k \in 1..Len(postCalls) : postCalls[k].index = k - 1
       /\ Len(postResponses) = error.index
       /\ error.index + 1 <= Len(contents)

\* the third request of a thread of four was rejected
C4_Witness ==
  /\ error.kind = "PostFailed"
  /\ error.index = 2
  /\ Len(contents) = 4
  /\ Len(postResponses) = 2

\* C5: once the uploads are launched there is exactly one pipeline per
\* distinct referenced path; a pipeline issues INIT once and APPEND and
\* FINALIZE at most once (once each when it is done); in the posts, equal
\* paths have equal media ids.
C5_UploadDeduplication ==
  /\ uploadAll # "none"
       => /\ Len(upl) = Cardinality(RefPaths)
          /\ \A p \in RefPaths :
               Cardinality({i \in 1..Len(upl) : imagesData[i].path = p}) = 1
  /\ \A i \in 1..Len(mediaCalls) :
       /\ CountCommand(mediaCalls[i], "INIT") = 1
       /\ CountCommand(mediaCalls[i], "APPEND") <= 1
       /\ CountCommand(mediaCalls[i], "FINALIZE") <= 1
       /\ upl[i].phase = "done"
            => /\ CountCommand(mediaCalls[i], "APPEND") = 1
               /\ CountCommand(mediaCalls[i], "FINALIZE") = 1
  /\ \A i, j \in 1..Len(postContents) :
       /\ Len(postContents[i].mediaIds) = Len(contents[i].images)
       /\ \A k \in 1..Len(contents[i].images), l \in 1..Len(contents[j].images) :
            contents[i].images[k] = contents[j].images[l]
              => postContents[i].mediaIds[k] = postContents[j].mediaIds[l]

\* two Contents refer to the same file, under two spellings, and are posted
C5_Witness ==
  /\ postContents # << >>
  /\ Len(upl) = 2
  /\ \E i, j \in 1..Len(contents) :
       /\ i # j
       /\ \E k \in 1..Len(contents[i].images), l \in 1..Len(contents[j].images) :
            contents[i].images[k] = contents[j].images[l]
       /\ Len(contents[i].images) = 2

\* C6: whenever the media-mix check is reached it throws exactly when some
\* Content is not accepted by the rule (with a gif: exactly one image;
\* without: at most four), and the Content it names is one the rule refuses;
\* a run that got past it has only accepted Contents.
C6_MediaMixAcceptance ==
  (DocumentRead /\ ~LengthViolation /\ ~MissingViolation)
    => /\ error.kind \in {"TooManyGifs", "TooManyImages"} <=> MixViolation
       /\ error.kind \in {"TooManyGifs", "TooManyImages"}
            => \E i \in 1..Len(contents) :
                 /\ ~MixAccepted(contents[i])
                 /\ error.text = contents[i].text
                 /\ \A j \in 1..(i - 1) : MixAccepted(contents[j])

\* the check has passed a Content of exactly four images, none a gif
C6_Witness ==
  /\ pc = "confirm"
  /\ \E i \in 1..Len(contents) :
       Len(contents[i].images) = 4 /\ ~HasGif(contents[i])

\* C7: the command throws ContentTooLong exactly when the text of some
\* Content (ordinal label, two line feeds, block text without image markup)
\* is longer than 280 characters, whichever Content it is; the error carries
\* the first 280 characters of the first such text.
C7_LengthRule ==
  DocumentRead
    => /\ \A i \in 1..Len(contents) :
            StartsAt(contents[i].text,
                     counter(i - 1, Len(contents) - 1) \o << NL, NL >>, 1)
       /\ error.kind = "ContentTooLong" <=> LengthViolation
       /\ error.kind = "ContentTooLong"
            => \E i \in 1..Len(contents) :
                 /\ Len(contents[i].text) > 280
                 /\ \A j \in 1..(i - 1) : Len(contents[j].text) <= 280
                 /\ error.text = SubSeq(contents[i].text, 1, 280)

\* a document whose first Content has 280 characters and is accepted, the
\* second 281 and is refused
C7_Witness ==
  /\ error.kind = "ContentTooLong"
  /\ Len(contents) = 2
  /\ Len(contents[1].text) <= 280
  /\ Len(contents[2].text) = 281

\* C8: whenever the size check is reached it throws ImageTooLarge exactly
\* when some distinct referenced image has more than 5,242,880 bytes, the
\* error names such an image, and no request has been sent.
C8_SizeRule ==
  /\ (DocumentRead /\ ~LengthViolation /\ ~MissingViolation /\ ~MixViolation)
       => (error.kind = "ImageTooLarge"
             <=> \E p \in RefPaths : imgfs[p].bytes > 5242880)
  /\ error.kind = "ImageTooLarge"
       => /\ error.path \in RefPaths
          /\ imgfs[error.path].bytes > 5242880
          /\ NoClientCalls

\* the second of two images is one byte over, the first of exactly the cap
C8_Witness ==
  /\ error.kind = "ImageTooLarge"
  /\ Len(imagesData) = 2
  /\ imagesData[1].total_bytes = 5242880
  /\ imagesData[2].total_bytes = 5242881
  /\ error.path = imagesData[2].path

\* C9: the document gives one block more than it has delimiter occurrences
\* (left to right, non-overlapping); block i is the label "i/(N-1)", two line
\* feeds and the text between occurrences i-1 and i, in document order, empty
\* or not; there is one Content per block.
C9_BlockCount ==
  DocumentRead
    => /\ Len(blocks) = Cardinality(Occurrences(file)) + 1
       /\ Len(contents) = Len(blocks)
       /\ \A i \in 1..Len(blocks) :
            blocks[i] = NatToString(i - 1) \o << "/" >> \o NatToString(Len(blocks) - 1)
                          \o << NL, NL >> \o trim(RawBlock(file, i))

\* a document of three blocks, the middle one empty, the last one not
C9_Witness ==
  /\ DocumentRead
  /\ Len(blocks) = 3
  /\ blocks[2] = << "1", "/", "2", NL, NL >>
  /\ Len(blocks[3]) > 5

\* C10: a document without a delimiter gives exactly one Content and, once
\* the uploads have succeeded, exactly one statuses/update request, which
\* carries no reply target.
C10_SingleBlock ==
  (DocumentRead /\ Occurrences(file) = {})
    => /\ Len(contents) = 1
       /\ Len(postCalls) <= 1
       /\ uploadAll = "fulfilled"
            => /\ Len(postCalls) = 1
               /\ ~HasReplyTarget(postCalls[1])

\* the empty document, posted
C10_Witness ==
  /\ file = << >>
  /\ pc = "exited"
  /\ Len(postCalls) = 1
  /\ Len(postResponses) = 1

\* C11: the requests of one pipeline are, in this order, INIT, then APPEND
\* with segment index 0 and the media id the INIT response of that pipeline
\* carried, then FINALIZE with the same id; APPEND is issued only once INIT
\* has answered, FINALIZE only once APPEND has answered, each once.
C11_PipelineOrder ==
  \A i \in 1..Len(upl) :
    LET calls == mediaCalls[i]
    IN  /\ Len(calls) \in 1..3
        /\ calls[1] = [command |-> "INIT",
                       total_bytes |-> imgfs[imagesData[i].path].bytes,
                       media_type |-> imagesData[i].media_type]
        /\ upl[i].phase = "init" => Len(calls) = 1
        /\ upl[i].mediaId = << >> => Len(calls) = 1
        /\ upl[i].phase = "append" => Len(calls) = 2
        /\ upl[i].phase \in {"finalize", "done"} => Len(calls) = 3
        /\ Len(calls) >= 2
             => calls[2] = [command |-> "APPEND", media_id |-> serverInitId(i),
                            segment_index |-> 0]
        /\ Len(calls) = 3
             => calls[3] = [command |-> "FINALIZE", media_id |-> serverInitId(i)]

\* no order between images: the second pipeline is done, with an id of its
\* own, while the first still waits for the answer to its INIT
C11_Witness ==
  /\ Len(upl) >= 2
  /\ upl[1].phase = "init"
  /\ upl[2].phase = "done"
  /\ Len(mediaCalls[2]) = 3
  /\ mediaCalls[2][3].media_id = << "m", "2" >>

\* the statuses/update requests issued and not yet answered or rejected
PostsInFlight ==
  Len(postCalls) - Len(postResponses) - (IF error.kind = "PostFailed" THEN 1 ELSE 0)

\* C12: at most one statuses/update request is in flight; it is the one of
\* the innermost suspended frame; the frames are those of indices N-1 down
\* to that one (post is entered at N-1 and recurses downward), and every
\* request below it has been answered.
C12_OnePostInFlight ==
  /\ PostsInFlight \in {0, 1}
  /\ PostsInFlight = 1 <=> frames # << >>
  /\ frames # << >>
       => /\ frames[1] = Len(contents) - 1
          /\ \A k \in 1..Len(frames) : frames[k] = Len(contents) - k
          /\ frames[Len(frames)] = Len(postCalls) - 1
          /\ Len(postResponses) = Len(postCalls) - 1

\* the request of index 1 is in flight with those of 2 and 3 still to come
C12_Witness ==
  /\ frames = << 3, 2, 1 >>
  /\ Len(postCalls) = 2
  /\ Len(postResponses) = 1

\* the request a pipeline in a given phase is waiting on
AwaitedRequest(phase) ==
  CASE phase = "init" -> "init"
    [] phase = "append" -> "append"
    [] phase = "finalize" -> "finalize"
    [] OTHER -> "none"

C13_FanOut ==
  /\ uploadAll # "none"
       => /\ Len(upl) = Len(imagesData)
          /\ \A i \in 1..Len(upl) : mediaCalls[i] # << >> /\ mediaCalls[i][1].command = "INIT"
  /\ uploadAll = "pending"
       => pc = "uploading" /\ \A i \in 1..Len(upl) : upl[i].phase # "failed"
  /\ uploadAll = "fulfilled" => \A i \in 1..Len(upl) : upl[i].phase = "done"
  /\ pc \in {"posting", "exited"} /\ postCalls # << >>
       => \A i \in 1..Len(upl) : upl[i].phase = "done"
  /\ uploadAll = "rejected" <=> \E i \in 1..Len(upl) : upl[i].phase = "failed"
  /\ uploadAll = "rejected"
       => /\ pc = "thrown"
          /\ error.kind = "UploadFailed"
          /\ postContents = << >> /\ postCalls = << >> /\ frames = << >>
          /\ \A j \in 1..Len(upl) :
               /\ upl[j].phase = "init"
                    => ENABLED InitReturns(j) /\ ENABLED MediaRequestRejects(j)
               /\ upl[j].phase = "append" => ENABLED AppendReturns(j)
               /\ upl[j].phase = "finalize" => ENABLED FinalizeReturns(j)

C13_FirstFailure ==
  /\ uploadAll = "pending" /\ uploadAll' = "rejected"
       => \E i \in 1..Len(upl) :
            /\ upl'[i].phase = "failed"
            /\ error'.kind = "UploadFailed"
            /\ error'.at = AwaitedRequest(upl[i].phase)
            /\ \A j \in 1..Len(upl) : j # i => upl'[j] = upl[j]
  /\ uploadAll = "rejected"
       => UNCHANGED << uploadAll, error, pc, postContents, frames, postCalls, postResponses >>

\* C13: every pipeline is started before any is awaited; the upload stage
\* is fulfilled only when every pipeline is done; it is rejected by the
\* first pipeline that fails, with that failure; the other pipelines are
\* not cancelled and can go on to their next request, and whatever they do
\* afterwards changes neither the failure nor what is posted (nothing is).
C13_FirstFailureAbort == []C13_FanOut /\ [][C13_FirstFailure]_vars

\* after the first failure (of an INIT) a second pipeline has failed at a
\* later request and a third is still free to go on
C13_Witness ==
  /\ uploadAll = "rejected"
  /\ error.at = "init"
  /\ \E i, j \in 1..Len(upl) :
       /\ upl[i].phase = "failed" /\ Len(mediaCalls[i]) = 3
       /\ upl[j].phase = "append" /\ ENABLED AppendReturns(j)

\* the failure is the one thrown for a FINALIZE response with an error field
FinalizeErrorSurfaced ==
  /\ error.kind = "UploadFailed"
  /\ error.at = "finalize"
  /\ error.message[1] = "Failed to upload image: "

\* C14: when FINALIZE answers with an error field, the failure surfaced
\* carries the path of the image whose pipeline failed as well as the error
\* of the response, and no second FINALIZE is sent for that image.
C14_FinalizeErrorCarriesPath ==
  FinalizeErrorSurfaced
    => /\ error.message[Len(error.message)] = ServerError
       /\ "path" \in DOMAIN error
       /\ \E i \in 1..Len(upl) :
            /\ upl[i].phase = "failed"
            /\ CountCommand(mediaCalls[i], "FINALIZE") = 1
            /\ error.path = imagesData[i].path

\* the first Content, in document order, that breaks the media-mix rule
RECURSIVE FirstMixViolation(_)
FirstMixViolation(i) ==
  IF i > Len(contents) THEN 0
  ELSE IF ~MixAccepted(contents[i]) THEN i
  ELSE FirstMixViolation(i + 1)

\* C15: the media-mix failure of a Content that has a gif and more than one
\* image is TooManyGifs, wherever the gif stands and however many images
\* there are; TooManyImages is the failure only of a Content with no gif
\* and more than four images.
C15_GifErrorKind ==
  error.kind \in {"TooManyGifs", "TooManyImages"}
    => LET content == contents[FirstMixViolation(1)]
       IN  /\ HasGif(content) /\ Len(content.images) > 1 => error.kind = "TooManyGifs"
           /\ error.kind = "TooManyImages"
                => ~HasGif(content) /\ Len(content.images) > 4

\* C16: no request is repeated: over all pipelines, each of INIT, APPEND
\* and FINALIZE is sent at most once for an image path, and statuses/update
\* at most once for an index, whichever requests fail.
C16_NoRetries ==
  /\ \A p \in RefPaths : \A c \in {"INIT", "APPEND", "FINALIZE"} :
       Cardinality({ik \in (1..Len(upl)) \X (1..3) :
                      /\ imagesData[ik[1]].path = p
                      /\ ik[2] <= Len(mediaCalls[ik[1]])
                      /\ mediaCalls[ik[1]][ik[2]].command = c}) <= 1
  /\ \A i \in 1..Len(upl) : Len(mediaCalls[i]) <= 3
  /\ \A n \in 0..(Len(contents) - 1) :
       Cardinality({k \in 1..Len(postCalls) : postCalls[k].index = n}) <= 1

\* two pipelines have failed, one at INIT and one at FINALIZE, and neither
\* has sent anything since
C16_Witness ==
  \E i, j \in 1..Len(upl) :
    /\ upl[i].phase = "failed" /\ Len(mediaCalls[i]) = 1
    /\ upl[j].phase = "failed" /\ Len(mediaCalls[j]) = 3
    /\ CountCommand(mediaCalls[j], "FINALIZE") = 1

(***************************************************************************)
(* The profile store: authenticate and profile:set (lines 129-209)         *)
(***************************************************************************)
\* the profile names given on the command line; "" is a missing name
ProfileNames == {"", "main", "alt", "dev"}

\* the options given on the command line; "" is a missing option
FullOptions == [ckey |-> "ck", csecret |-> "cs", tkey |-> "tk", tsecret |-> "ts"]

OptionSets ==
  {FullOptions,
   [FullOptions EXCEPT !.ckey = "ck2", !.csecret = "cs2", !.tkey = "tk2", !.tsecret = "ts2"],
   [FullOptions EXCEPT !.ckey = ""], [FullOptions EXCEPT !.csecret = ""],
   [FullOptions EXCEPT !.tkey = ""], [FullOptions EXCEPT !.tsecret = ""]}

\* !profileName || `${profileName}`.length === 0
invalidName(profileName) == profileName = ""

\* the four option guards of authenticate
missingOption(options) ==
  options.ckey = "" \/ options.csecret = "" \/ options.tkey = "" \/ options.tsecret = ""

\* the position of a key of the config; 0 when it has no such key
keyIndex(cfg, name) ==
  LET at == {i \in 1..Len(cfg) : cfg[i].name = name}
  IN  IF at = {} THEN 0 ELSE CHOOSE i \in at : TRUE

newProfile(profileName, options) ==
  [name |-> profileName,
   active |-> FALSE,
   credential |-> [consumer_key |-> options.ckey,
                   consumer_secret |-> options.csecret,
                   access_token_key |-> options.tkey,
                   access_token_secret |-> options.tsecret]]

\* {...config, [profileName]: {...}}: a key the config has keeps its place
authenticated(cfg, profileName, options) ==
  IF keyIndex(cfg, profileName) = 0
  THEN Append(cfg, newProfile(profileName, options))
  ELSE [cfg EXCEPT ![keyIndex(cfg, profileName)] = newProfile(profileName, options)]

\* profiles.some(it => it.name === profileName)
profileExists(cfg, profileName) == \E i \in 1..Len(cfg) : cfg[i].name = profileName

\* profile:set as it would be if it only raised the flag of the named profile
switchedKeepsOthers(cfg, profileName) ==
  [i \in 1..Len(cfg) |->
     [cfg[i] EXCEPT !.active = cfg[i].active \/ profileName = cfg[i].name]]

\* profiles.reduce(...): every profile again, active only if it is the named one
switched(cfg, profileName) ==
  [i \in 1..Len(cfg) |-> [cfg[i] EXCEPT !.active = (profileName = cfg[i].name)]]

\* thread authenticate <profileName> --ckey .. --csecret .. --tkey .. --tsecret ..
Authenticate(profileName, options) ==
  /\ pc = "idle"
  /\ pc' = "returned"
  /\ IF invalidName(profileName) \/ missingOption(options)
     THEN UNCHANGED config
     ELSE config' = authenticated(config, profileName, options)
  /\ UNCHANGED << imgfs, file, blocks, contents, imagePaths, imagesData, error, upl,
                  uploadAll, mediaCalls, postContents, frames, postCalls, postResponses >>

\* thread profile:set <profileName>
ProfileSet(profileName) ==
  /\ pc = "idle"
  /\ pc' = "returned"
  /\ IF invalidName(profileName) \/ ~profileExists(config, profileName)
     THEN UNCHANGED config
     ELSE config' = switched(config, profileName)
  /\ UNCHANGED << imgfs, file, blocks, contents, imagePaths, imagesData, error, upl,
                  uploadAll, mediaCalls, postContents, frames, postCalls, postResponses >>

\* the command has returned and the program is run again
NextCommand ==
  /\ pc = "returned"
  /\ pc' = "idle"
  /\ UNCHANGED << config, imgfs, file, blocks, contents, imagePaths, imagesData, error,
                  upl, uploadAll, mediaCalls, postContents, frames, postCalls,
                  postResponses >>

\* no ~/.thread.json yet: checkAndCreateConfigFile writes {}
InitStore ==
  /\ Init
  /\ config = EmptyConfig
  /\ imgfs = [p \in ImageFiles |-> OkFile]

NextStore ==
  \/ \E profileName \in ProfileNames : \E options \in OptionSets :
       Authenticate(profileName, options)
  \/ \E profileName \in ProfileNames : ProfileSet(profileName)
  \/ NextCommand

SpecStore == InitStore /\ [][NextStore]_vars

ActiveProfiles(cfg) == {i \in 1..Len(cfg) : cfg[i].active}

C17_AtMostOneActive ==
  /\ Cardinality(ActiveProfiles(config)) <= 1
  /\ \A i, j \in 1..Len(config) : config[i].name = config[j].name => i = j
  /\ activeProfileIndex(config) # 0
       => ActiveProfiles(config) = {activeProfileIndex(config)}

C17_ProfileSetStep ==
  \A P \in ProfileNames :
    ProfileSet(P)
      => IF P # "" /\ \E i \in 1..Len(config) : config[i].name = P
         THEN /\ Len(config') = Len(config)
              /\ \A i \in 1..Len(config) :
                   /\ config'[i].name = config[i].name
                   /\ config'[i].credential = config[i].credential
                   /\ config'[i].active <=> config[i].name = P
         ELSE config' = config

\* C17: from an empty store, whatever authenticate and profile:set commands
\* are run, at most one profile is active (and it is the one getProfile
\* finds); a profile:set of a name the store has leaves that profile the
\* only active one and changes nothing else; a profile:set of any other
\* name leaves the store as it was.
C17_ProfileStore == []C17_AtMostOneActive /\ [][C17_ProfileSetStep]_vars

\* three profiles, the second of them made active by the command that has
\* just returned
C17_Witness ==
  /\ pc = "returned"
  /\ Len(config) = 3
  /\ ActiveProfiles(config) = {2}

\* the run of the post command is over
Terminated == pc \in {"exited", "thrown"}

\* every Content has been posted, and the response post returns, the last
\* one received, is the one to the request of index N-1
AllPosted ==
  /\ pc = "exited"
  /\ error = NoError
  /\ Len(postCalls) = Len(contents)
  /\ Len(postResponses) = Len(contents)
  /\ postCalls[Len(postCalls)].index = Len(contents) - 1

\* a failure of the upload or of a post has been thrown with fewer than N posts made
FailureSurfaced ==
  /\ pc = "thrown"
  /\ error.kind \in {"UploadFailed", "PostFailed"}
  /\ Len(postResponses) < Len(contents)

C18_Outcome ==
  uploadAll # "none" /\ Terminated
    => (AllPosted \/ FailureSurfaced) /\ ~(AllPosted /\ FailureSurfaced)

FinalizedId(path) ==
  LET j == CHOOSE j \in 1..Len(upl) : imagesData[j].path = path
  IN  serverFinalId(mediaCalls[j][3].media_id)

\* C19: whenever statuses/update is sent for a Content, there is one media
\* id for each image of the Content, in the order of the images; each is
\* the id the FINALIZE of the upload of that image path returned, and none
\* is undefined; media_ids is these ids joined by commas, and is empty for a
\* Content with no image.
C19_MediaIdsMatchImages ==
  \A c \in 1..Len(postCalls) :
    LET n == postCalls[c].index + 1
        images == contents[n].images
        mediaIds == postContents[n].mediaIds
    IN  /\ Len(mediaIds) = Len(images)
        /\ \A k \in 1..Len(images) :
             /\ \E j \in 1..Len(upl) :
                  /\ imagesData[j].path = images[k]
                  /\ upl[j].phase = "done"
                  /\ Len(mediaCalls[j]) = 3
             /\ mediaIds[k] # Undefined
             /\ mediaIds[k] = FinalizedId(images[k])
        /\ IF images = << >>
           THEN postCalls[c].media_ids = << >>
           ELSE split(postCalls[c].media_ids, << "," >>)
                  = [k \in 1..Len(images) |-> FinalizedId(images[k])]

\* the first post is sent with the ids of its two images, uploaded by the
\* first and second pipelines
C19_Witness ==
  /\ postCalls # << >>
  /\ Len(contents[1].images) = 2
  /\ contents[1].images[1] # contents[1].images[2]
  /\ postCalls[1].media_ids = << "f", "m", "1", ",", "f", "m", "2" >>

C20_NoCallsBeforeYes ==
  /\ pc \in {"idle", "returned", "confirm"} => NoClientCalls
  /\ pc = "exited" /\ postCalls = << >> => NoClientCalls

C20_DeclinedStep ==
  \A input \in Inputs :
    ConfirmWith(input)
      => IF input \in {"y", "Y"}
         THEN pc' \in {"uploading", "posting"} /\ ~NoClientCalls'
         ELSE pc' = "exited" /\ NoClientCalls'

\* C20: no request is sent before the prompt is answered; an answer other
\* than 'y' or 'Y' ends the process with none sent, and a run ended without
\* a post has sent none; an answer of 'y' or 'Y' is what starts the uploads
\* and posts.
C20_ConfirmationGate == []C20_NoCallsBeforeYes /\ [][C20_DeclinedStep]_vars

\* the prompt was declined for a document with images: the process has
\* ended and nothing was sent
C20_Witness ==
  /\ pc = "exited"
  /\ imagesData # << >>
  /\ uploadAll = "none"
  /\ NoClientCalls
====
